---- MODULE Spec2Model ----
(***************************************************************************)
(* Zscaler -> vManage Data Prefix List sync (src/src/zscaler_to_vmanage.py) *)
(*                                                                         *)
(* Spec      : one process run of main() (fetch, delta and guard, connect, *)
(*             backup, chunking, per-chunk apply, cache) from any cache    *)
(*             file and controller directory earlier runs may have left.   *)
(* SpecRuns  : one run after another, from a first installation.           *)
(* SpecPart  : the chunk logic of main() as a pure function of            *)
(*             (new_cidrs, ZSCALER_MAX_CHUNK).                             *)
(* SpecExt   : walk()/add_cidr() of fetch_zscaler_prefixes over a payload. *)
(*                                                                         *)
(* In Spec a prefix is a number of 1..MaxPrefixes: the rank of its CIDR    *)
(* string in Python's string order, so sorted() is ascending order.        *)
(***************************************************************************)
EXTENDS Integers, Sequences, FiniteSets, TLC

\* ------------------------------------------------------------------ bounds
MaxPrefixes == 3
MaxRuns == 2
\* SpecPart: the longest prefix list partitioned.
PartMaxLen == 12
\* SpecExt: the most entries of a payload.
MaxEntries == 2

Prefixes == 1..MaxPrefixes

\* ------------------------------------------------------------ configuration
DPL_NAME == "X"
\* Values of the environment variable ZSCALER_MAX_CHUNK the runs are tried with.
MaxChunkChoices == {0, 2, MaxPrefixes}
\* Values of MAX_REMOVE_PERCENT the runs are tried with (whole percents).
MaxRemoveChoices == {0, 50, 100}

\* ------------------------------------------------------------------ helpers
Range(s) == {s[i] : i \in DOMAIN s}

Max(a, b) == IF a >= b THEN a ELSE b

Min(a, b) == IF a <= b THEN a ELSE b

MinOf(S) == CHOOSE x \in S : \A y \in S : x <= y

\* sorted(set): the ascending list of a set of prefixes.
RECURSIVE SortedSeq(_)
SortedSeq(S) == IF S = {} THEN <<>> ELSE <<MinOf(S)>> \o SortedSeq(S \ {MinOf(S)})

\* lst[start:end] of Python, start and end 0-based, end exclusive.
Slice(lst, start, end) == SubSeq(lst, start + 1, end)

Digit(d) == CASE d = 0 -> "0" [] d = 1 -> "1" [] d = 2 -> "2" [] d = 3 -> "3"
              [] d = 4 -> "4" [] d = 5 -> "5" [] d = 6 -> "6" [] d = 7 -> "7"
              [] d = 8 -> "8" [] d = 9 -> "9"

\* str(n) for n >= 0.
RECURSIVE Dec(_)
Dec(n) == IF n < 10 THEN Digit(n) ELSE Dec(n \div 10) \o Digit(n % 10)

\* f"{n:02d}": decimal, zero-padded to at least two digits.
Fmt02d(n) == IF n < 10 THEN "0" \o Digit(n) ELSE Dec(n)

\* f"{DPL_NAME}_{i+1:02d}" for the 0-based loop index i.
ChunkName(i) == DPL_NAME \o "_" \o Fmt02d(i + 1)

\* math.ceil(total / max_chunk), max_chunk >= 1.
CeilDiv(total, max_chunk) == (total + max_chunk - 1) \div max_chunk

\* ChunkLogic with "total < max_chunk" for "total <= max_chunk".
ChunkLogic_StrictLess(cidrs, cfg_max) ==
  LET total == Len(cidrs)
      max_chunk == Max(1, cfg_max)
      num_chunks == CeilDiv(total, max_chunk)
  IN  IF total < max_chunk
        THEN << [name |-> DPL_NAME, cidrs |-> cidrs] >>
        ELSE [j \in 1..num_chunks |->
                LET start == (j - 1) * max_chunk
                    end == Min(start + max_chunk, total)
                IN  [name |-> ChunkName(j - 1), cidrs |-> Slice(cidrs, start, end)]]

\* The chunk logic of main(): the list of (name, slice) pairs.
ChunkLogic(cidrs, cfg_max) ==
  LET total == Len(cidrs)
      max_chunk == Max(1, cfg_max)
      num_chunks == CeilDiv(total, max_chunk)
  IN  IF total <= max_chunk
        THEN << [name |-> DPL_NAME, cidrs |-> cidrs] >>
        ELSE [j \in 1..num_chunks |->
                LET start == (j - 1) * max_chunk
                    end == Min(start + max_chunk, total)
                IN  [name |-> ChunkName(j - 1), cidrs |-> Slice(cidrs, start, end)]]

\* ------------------------------------------------------------- the cache file
CacheMissing == [kind |-> "missing", data |-> <<>>]
CacheCorrupt == [kind |-> "corrupt", data |-> <<>>]
CacheOk(lst) == [kind |-> "ok", data |-> lst]

\* read_cache: the stored list, [] when the file is missing or unreadable.
read_cache(file) == IF file.kind = "ok" THEN file.data ELSE <<>>

\* write_cache: json.dump(sorted(lst)); an OSError is logged and swallowed, the
\* file as it was (makedirs or open failed).
write_cache(file, lst, ok) == IF ok THEN CacheOk(SortedSeq(Range(lst))) ELSE file

\* GuardBlocks with ">=" for ">".
GuardBlocks_AtThreshold(old_cidrs, to_remove, max_remove) ==
  /\ old_cidrs # <<>>
  /\ Len(to_remove) * 100 >= max_remove * Max(1, Len(old_cidrs))

\* The removal guard of main(): whether the run is refused.  pct_remove is
\* len(to_remove) / max(1, len(old_cidrs)) * 100.0; it is compared here in exact
\* arithmetic, which agrees with the double comparison for every list of fewer
\* than 20 entries and whole-percent thresholds.
GuardBlocks(old_cidrs, to_remove, max_remove) ==
  /\ old_cidrs # <<>>
  /\ Len(to_remove) * 100 > max_remove * Max(1, Len(old_cidrs))

\* ------------------------------------------------------------ remote objects
NoItem == [name |-> "", listId |-> "", id |-> "", uuid |-> "", entries |-> <<>>]

Obj(name, listId, id, uuid, entries) ==
  [name |-> name, listId |-> listId, id |-> id, uuid |-> uuid, entries |-> entries]

\* ListIdOf without the "uuid" fallback.
ListIdOf_NoUuid(item) ==
  IF item.listId # "" THEN item.listId ELSE item.id

\* item.get("listId") or item.get("id") or item.get("uuid") or ""
ListIdOf(item) ==
  IF item.listId # "" THEN item.listId
  ELSE IF item.id # "" THEN item.id
  ELSE item.uuid

\* FirstMatch falling back to the base list when the name is not listed.
FirstMatch_BaseFallback(items, name) ==
  LET hits == {k \in DOMAIN items : items[k].name = name}
      base == {k \in DOMAIN items : items[k].name = DPL_NAME}
  IN  IF hits # {} THEN items[MinOf(hits)]
      ELSE IF base # {} THEN items[MinOf(base)]
      ELSE [name |-> "", listId |-> "", id |-> "", uuid |-> "", entries |-> <<>>]

\* next((i for i in existing_items if i.get("name") == name), None)
FirstMatch(items, name) ==
  LET hits == {k \in DOMAIN items : items[k].name = name}
  IN  IF hits = {} THEN NoItem ELSE items[MinOf(hits)]

\* PUT .../dataprefix/{list_id}: the object with that id gets the name and the
\* entries of the payload.
vm_update_dpl(rem, list_id, name, cidrs) ==
  [k \in DOMAIN rem |->
     IF ListIdOf(rem[k]) = list_id
       THEN [rem[k] EXCEPT !.name = name, !.entries = cidrs]
       ELSE rem[k]]

\* The id the controller gives a new list.
FreshId(rem) == "n" \o Dec(Len(rem) + 1)

\* POST .../dataprefix: a new object with the name and the entries of the payload.
vm_create_dpl(rem, name, cidrs) ==
  Append(rem, Obj(name, FreshId(rem), "", "", cidrs))

\* Directories the controller may hold before the first run.
InitRemotes ==
  { <<>>,
    << Obj("OTHER", "f", "", "", <<1>>), Obj("X", "a", "", "", <<1>>) >>,
    << Obj("x_01", "e", "", "", <<1>>), Obj("X_02", "", "c", "", <<1>>),
       Obj("X_03", "", "", "d", <<1>>) >>,
    << Obj("X", "n1", "", "", <<1>>), Obj("X_01", "n2", "", "", <<1>>),
       Obj("X_02", "n3", "", "", <<1>>), Obj("X_03", "n4", "", "", <<1>>) >> }

\* Cache files a run may find: none, an unreadable one, or one an earlier run wrote.
InitCaches == {CacheMissing, CacheCorrupt} \cup {CacheOk(SortedSeq(S)) : S \in SUBSET Prefixes}

\* The prefix sets the feed serves in SpecRuns.
RunFeeds == {{}, {1}, Prefixes, Prefixes \ {1}}

\* ------------------------------------------------------------------- state
VARIABLES
  cfg_max_chunk,    \* ZSCALER_MAX_CHUNK
  cfg_max_remove,   \* MAX_REMOVE_PERCENT
  feeds,            \* the prefix sets the feed URL may serve
  cacheFile,        \* the file CACHE_FILE
  remote,           \* the controller's data prefix lists, in listing order
  runs,             \* processes started so far
  pc,               \* where main() stands
  dry_run,          \* args.dry_run
  new_cidrs, old_cidrs, to_add, to_remove,
  existing_items,   \* the listing fetched by vm_get_dpl_items
  chunks,           \* the (name, slice) list
  idx,              \* the chunk the apply loop stands at (1-based)
  updated_lists,    \* names in updated_lists
  exit_code,        \* the process exit status, -1 while running
  outcome,          \* how the run ended
  log,              \* the side effects of the run, in order
  cache0, remote0,  \* cacheFile and remote when the run started
  lastRun,          \* the delta of the previous run
  family,           \* ZSCALER_FAMILY
  payload,          \* r.json() of the feed
  todo,             \* the nodes walk() has still to visit, next first
  cidrs             \* the set cidrs of fetch_zscaler_prefixes

vars == << cfg_max_chunk, cfg_max_remove, feeds, cacheFile, remote, runs, pc, dry_run,
           new_cidrs, old_cidrs, to_add, to_remove, existing_items, chunks, idx,
           updated_lists, exit_code, outcome, log, cache0, remote0, lastRun,
           family, payload, todo, cidrs >>

extVars == << family, payload, todo, cidrs >>

cfgVars == << cfg_max_chunk, cfg_max_remove, feeds, extVars >>

runVars == << cfg_max_chunk, cfg_max_remove, feeds, cacheFile, remote, runs, pc,
              dry_run, new_cidrs, old_cidrs, to_add, to_remove, existing_items,
              chunks, idx, updated_lists, exit_code, outcome, log, cache0, remote0,
              lastRun >>

Ev(ev, name, id, ok) == [ev |-> ev, name |-> name, id |-> id, ok |-> ok]

NoRun == [outcome |-> "none", new_cidrs |-> <<>>, to_add |-> <<>>, to_remove |-> <<>>]

Locals0 ==
  /\ runs = 0
  /\ pc = "idle"
  /\ dry_run = FALSE
  /\ new_cidrs = <<>> /\ old_cidrs = <<>> /\ to_add = <<>> /\ to_remove = <<>>
  /\ existing_items = <<>>
  /\ chunks = <<>>
  /\ idx = 1
  /\ updated_lists = <<>>
  /\ exit_code = -1
  /\ outcome = "none"
  /\ log = <<>>
  /\ cache0 = cacheFile /\ remote0 = remote
  /\ lastRun = NoRun

\* The extractor at rest (Spec, SpecRuns and SpecPart take its result as the feed).
ExtIdle == family = "ipv4" /\ payload = <<>> /\ todo = <<>> /\ cidrs = {}

Init ==
  /\ ExtIdle
  /\ cfg_max_chunk \in MaxChunkChoices
  /\ cfg_max_remove \in MaxRemoveChoices
  /\ feeds = SUBSET Prefixes
  /\ cacheFile \in InitCaches
  /\ remote \in InitRemotes
  /\ Locals0

\* A first installation: no cache file, a directory without the lists.
InitRuns ==
  /\ ExtIdle
  /\ cfg_max_chunk \in {0, 2}
  /\ cfg_max_remove = 50
  /\ feeds = RunFeeds
  /\ cacheFile = CacheMissing
  /\ remote = <<>>
  /\ Locals0

\* A run ends: the exit status, the terminal state, and what it left in the log.
Terminate(code, how, events) ==
  /\ pc' = "done"
  /\ exit_code' = code
  /\ outcome' = how
  /\ log' = log \o events

\* A new process: argparse, module-level configuration.
Begin ==
  /\ runs' = runs + 1
  /\ dry_run' \in BOOLEAN
  /\ pc' = "fetch"
  /\ new_cidrs' = <<>> /\ old_cidrs' = <<>> /\ to_add' = <<>> /\ to_remove' = <<>>
  /\ existing_items' = <<>> /\ chunks' = <<>> /\ idx' = 1 /\ updated_lists' = <<>>
  /\ exit_code' = -1 /\ outcome' = "none" /\ log' = <<>>
  /\ cache0' = cacheFile /\ remote0' = remote
  /\ lastRun' = IF pc = "done"
                  THEN [outcome |-> outcome, new_cidrs |-> new_cidrs,
                        to_add |-> to_add, to_remove |-> to_remove]
                  ELSE NoRun
  /\ UNCHANGED << cfgVars, cacheFile, remote >>

\* The first run.
Start == pc = "idle" /\ Begin

\* The scheduler starts the next run after the previous process has ended.
Restart == pc = "done" /\ runs < MaxRuns /\ Begin

\* 1) fetch_zscaler_prefixes: the sorted CIDR list, or an exception -> return 1.
Fetch ==
  /\ pc = "fetch"
  /\ \/ \E feed \in feeds :
          /\ new_cidrs' = SortedSeq(feed)
          /\ pc' = "delta"
          /\ UNCHANGED << exit_code, outcome, log >>
     \/ /\ Terminate(1, "FetchFailed", << Ev("notify", "Error", "", FALSE) >>)
        /\ UNCHANGED new_cidrs
  /\ UNCHANGED << cfgVars, cacheFile, remote, runs, dry_run, old_cidrs, to_add,
                  to_remove, existing_items, chunks, idx, updated_lists, cache0,
                  remote0, lastRun >>

\* DryRunReturns with the flag ignored.
DryRunReturns_Ignored(flag) == FALSE

\* if args.dry_run: whether the run returns before any push.
DryRunReturns(flag) == flag

\* 2) delta against the cache, the removal guard, the dry-run return.
DeltaGuard ==
  /\ pc = "delta"
  /\ LET old == read_cache(cacheFile)
         add == SortedSeq(Range(new_cidrs) \ Range(old))
         rem == SortedSeq(Range(old) \ Range(new_cidrs))
     IN  /\ old_cidrs' = old
         /\ to_add' = add
         /\ to_remove' = rem
         /\ IF GuardBlocks(old, rem, cfg_max_remove)
              THEN Terminate(2, "Blocked", << Ev("notify", "Blocked", "", FALSE) >>)
              ELSE IF DryRunReturns(dry_run)
                THEN Terminate(0, "DryRun", <<>>)
                ELSE /\ pc' = "connect"
                     /\ UNCHANGED << exit_code, outcome, log >>
  /\ UNCHANGED << cfgVars, cacheFile, remote, runs, dry_run, new_cidrs,
                  existing_items, chunks, idx, updated_lists, cache0, remote0,
                  lastRun >>

\* 3) vm_login and vm_get_dpl_items; an exception of either -> return 3.
Connect ==
  /\ pc = "connect"
  /\ \/ /\ existing_items' = remote
        /\ pc' = "base"
        /\ log' = log \o << Ev("login", "", "", TRUE), Ev("list", "", "", TRUE) >>
        /\ UNCHANGED << exit_code, outcome >>
     \/ /\ Terminate(3, "ConnectFailed",
                     << Ev("login", "", "", FALSE), Ev("notify", "Error", "", FALSE) >>)
        /\ UNCHANGED existing_items
     \/ /\ Terminate(3, "ConnectFailed",
                     << Ev("login", "", "", TRUE), Ev("list", "", "", FALSE),
                        Ev("notify", "Error", "", FALSE) >>)
        /\ UNCHANGED existing_items
  /\ UNCHANGED << cfgVars, cacheFile, remote, runs, dry_run, new_cidrs, old_cidrs,
                  to_add, to_remove, chunks, idx, updated_lists, cache0, remote0,
                  lastRun >>

\* backup_dpl_json: os.makedirs stands before the try block, so its OSError
\* leaves the function; an error of open/json.dump is logged and swallowed.
BackupResults == {"written", "write_failed", "makedirs_failed"}

BackupRaises(res) == res = "makedirs_failed"

\* The base list, if the listing has it, is backed up before the chunk logic.
BaseBackup ==
  /\ pc = "base"
  /\ LET base_item == FirstMatch(existing_items, DPL_NAME)
     IN  IF base_item # NoItem
           THEN \E res \in BackupResults :
                  IF BackupRaises(res)
                    THEN Terminate(1, "Uncaught",
                                   << Ev("backup", DPL_NAME, ListIdOf(base_item), FALSE) >>)
                    ELSE /\ pc' = "chunk"
                         /\ log' = Append(log, Ev("backup", DPL_NAME, ListIdOf(base_item),
                                                  res = "written"))
                         /\ UNCHANGED << exit_code, outcome >>
           ELSE /\ pc' = "chunk"
                /\ UNCHANGED << exit_code, outcome, log >>
  /\ UNCHANGED << cfgVars, cacheFile, remote, runs, dry_run, new_cidrs, old_cidrs,
                  to_add, to_remove, existing_items, chunks, idx, updated_lists,
                  cache0, remote0, lastRun >>

\* Chunk with the cache written before the apply loop.
Chunk_WritesCache ==
  /\ pc = "chunk"
  /\ chunks' = ChunkLogic(new_cidrs, cfg_max_chunk)
  /\ idx' = 1
  /\ pc' = "apply"
  /\ cacheFile' = write_cache(cacheFile, new_cidrs, TRUE)
  /\ UNCHANGED << cfgVars, remote, runs, dry_run, new_cidrs, old_cidrs,
                  to_add, to_remove, existing_items, updated_lists, exit_code,
                  outcome, log, cache0, remote0, lastRun >>

\* 4) the chunk logic.
Chunk ==
  /\ pc = "chunk"
  /\ chunks' = ChunkLogic(new_cidrs, cfg_max_chunk)
  /\ idx' = 1
  /\ pc' = "apply"
  /\ UNCHANGED << cfgVars, cacheFile, remote, runs, dry_run, new_cidrs, old_cidrs,
                  to_add, to_remove, existing_items, updated_lists, exit_code,
                  outcome, log, cache0, remote0, lastRun >>

\* 5) one iteration of the apply loop.  An exception of vm_update_dpl or
\* vm_create_dpl (raise e) is caught nowhere: the interpreter ends with status 1.
ApplyChunk ==
  /\ pc = "apply"
  /\ idx <= Len(chunks)
  /\ LET name == chunks[idx].name
         cidr_slice == chunks[idx].cidrs
         item == FirstMatch(existing_items, name)
         list_id == ListIdOf(item)
     IN  IF item # NoItem
           THEN \E res \in BackupResults, ok \in BOOLEAN :
                  IF BackupRaises(res)
                    THEN /\ Terminate(1, "Uncaught", << Ev("backup", name, list_id, FALSE) >>)
                         /\ UNCHANGED << remote, idx, updated_lists >>
                    ELSE IF ~ok
                      THEN /\ Terminate(1, "ApplyFailed",
                                        << Ev("backup", name, list_id, res = "written"),
                                           Ev("update", name, list_id, FALSE) >>)
                           /\ UNCHANGED << remote, idx, updated_lists >>
                      ELSE /\ remote' = vm_update_dpl(remote, list_id, name, cidr_slice)
                           /\ log' = log \o << Ev("backup", name, list_id, res = "written"),
                                               Ev("update", name, list_id, TRUE) >>
                           /\ updated_lists' = Append(updated_lists, name)
                           /\ idx' = idx + 1
                           /\ UNCHANGED << pc, exit_code, outcome >>
           ELSE \E ok \in BOOLEAN :
                  IF ~ok
                    THEN /\ Terminate(1, "ApplyFailed", << Ev("create", name, "", FALSE) >>)
                         /\ UNCHANGED << remote, idx, updated_lists >>
                    ELSE /\ remote' = vm_create_dpl(remote, name, cidr_slice)
                         /\ log' = Append(log, Ev("create", name, FreshId(remote), TRUE))
                         /\ updated_lists' = Append(updated_lists, name)
                         /\ idx' = idx + 1
                         /\ UNCHANGED << pc, exit_code, outcome >>
  /\ UNCHANGED << cfgVars, cacheFile, runs, dry_run, new_cidrs, old_cidrs, to_add,
                  to_remove, existing_items, chunks, cache0, remote0, lastRun >>

\* 6) the loop is over: write the cache, notify, return 0.
Finish ==
  /\ pc = "apply"
  /\ idx > Len(chunks)
  /\ \E ok \in BOOLEAN :
       /\ cacheFile' = write_cache(cacheFile, new_cidrs, ok)
       /\ Terminate(0, "Success", << Ev("write_cache", "", "", ok),
                                     Ev("notify", "Success", "", TRUE) >>)
  /\ UNCHANGED << cfgVars, remote, runs, dry_run, new_cidrs, old_cidrs, to_add,
                  to_remove, existing_items, chunks, idx, updated_lists, cache0,
                  remote0, lastRun >>

Next == Start \/ Fetch \/ DeltaGuard \/ Connect \/ BaseBackup \/ Chunk \/ ApplyChunk \/ Finish

Spec == Init /\ [][Next]_vars

NextRuns == Next \/ Restart

SpecRuns == InitRuns /\ [][NextRuns]_vars

\* ------------------------------------------------------------------ SpecPart
\* The chunk logic alone: any sorted list of up to PartMaxLen prefixes, any
\* ZSCALER_MAX_CHUNK from -1 to one above the longest list.
InitPart ==
  /\ ExtIdle
  /\ cfg_max_chunk \in -1..(PartMaxLen + 1)
  /\ cfg_max_remove = 50
  /\ feeds = {}
  /\ cacheFile = CacheMissing
  /\ remote = <<>>
  /\ runs = 1
  /\ pc = "chunk"
  /\ dry_run = FALSE
  /\ \E n \in 0..PartMaxLen : new_cidrs = [i \in 1..n |-> i]
  /\ old_cidrs = <<>> /\ to_add = new_cidrs /\ to_remove = <<>>
  /\ existing_items = <<>>
  /\ chunks = <<>>
  /\ idx = 1
  /\ updated_lists = <<>>
  /\ exit_code = -1
  /\ outcome = "none"
  /\ log = <<>>
  /\ cache0 = cacheFile /\ remote0 = remote
  /\ lastRun = NoRun

NextPart == Chunk

SpecPart == InitPart /\ [][NextPart]_vars

\* ------------------------------------------------------------------- SpecExt
\* A host text is an address of version 4 (four groups of 8 bits) or 6 (eight
\* groups of 16 bits), or text that is no address (version 0).  A string is a
\* host text, alone or followed by "/" and a length.
Host(ver, groups) == [ver |-> ver, groups |-> groups]

H4a == Host(4, <<10, 0, 0, 5>>)
H4b == Host(4, <<192, 168, 77, 130>>)
H6a == Host(6, <<8193, 3512, 0, 0, 0, 0, 0, 1>>)
NotAnIp == Host(0, <<>>)

Tok(host, slash, len) == [host |-> host, slash |-> slash, len |-> len]

Bare(host) == Tok(host, FALSE, 0)

\* JSON values: strings, numbers, null, lists, objects (fields in their order).
NoTok == Bare(NotAnIp)
JStr(tok) == [kind |-> "str", tok |-> tok, num |-> 0, kids |-> <<>>]
JNum(n) == [kind |-> "num", tok |-> NoTok, num |-> n, kids |-> <<>>]
JNull == [kind |-> "null", tok |-> NoTok, num |-> 0, kids |-> <<>>]
JList(items) == [kind |-> "list", tok |-> NoTok, num |-> 0, kids |-> items]
JDict(fields) == [kind |-> "dict", tok |-> NoTok, num |-> 0, kids |-> fields]
Field(key, val) == [key |-> key, val |-> val]

Pow2(k) == 2 ^ k

\* The bits of an address: 32 for version 4, 128 for version 6.
AddrBits(ver) == IF ver = 4 THEN 32 ELSE 128

GroupBits(ver) == IF ver = 4 THEN 8 ELSE 16

\* The network address: the host bits beyond the first len bits zeroed.
MaskGroups(ver, groups, len) ==
  [i \in DOMAIN groups |->
     LET w == GroupBits(ver)
         keep == Max(0, Min(w, len - (i - 1) * w))
     IN  (groups[i] \div Pow2(w - keep)) * Pow2(w - keep)]

Invalid == [ver |-> 0, groups |-> <<>>, len |-> 0]

\* ip_network(f"{host}/{len}", strict=False): ValueError (Invalid) when the host is
\* no address or the length exceeds the version's bits.
ip_network(host, len) ==
  IF host.ver \in {4, 6} /\ len >= 0 /\ len <= AddrBits(host.ver)
    THEN [ver |-> host.ver, groups |-> MaskGroups(host.ver, host.groups, len), len |-> len]
    ELSE Invalid

\* add_cidr(value, mask): the set cidrs afterwards.  A value with "/" is parsed as
\* it stands, one with a mask (not None) as value/int(mask), and any other as
\* value/32; int() of a mask that is no number raises, which is swallowed like a
\* ValueError of ip_network.  Strings here are never empty after strip().
add_cidr(set, fam, value, mask) ==
  LET net == IF value.slash THEN ip_network(value.host, value.len)
             ELSE IF mask.kind # "null"
               THEN IF mask.kind = "num" THEN ip_network(value.host, mask.num) ELSE Invalid
             ELSE ip_network(value.host, 32)
  IN  IF net = Invalid THEN set
      ELSE IF fam = "ipv4" /\ net.ver # 4 THEN set
      ELSE IF fam = "ipv6" /\ net.ver # 6 THEN set
      ELSE set \cup {net}

\* str(x) of a field value: the string itself, and for any other value a text that
\* is no address.
StrOf(node) == IF node.kind = "str" THEN node.tok ELSE NoTok

HasKey(fields, key) == \E i \in DOMAIN fields : fields[i].key = key

\* obj.get(key): the value, None when the key is absent.
Get(fields, key) ==
  IF HasKey(fields, key)
    THEN fields[MinOf({i \in DOMAIN fields : fields[i].key = key})].val
    ELSE JNull

\* Python truth of a JSON value.
Truthy(node) ==
  CASE node.kind = "null" -> FALSE
    [] node.kind = "num" -> node.num # 0
    [] node.kind \in {"list", "dict"} -> node.kids # <<>>
    [] OTHER -> TRUE

\* obj.get("masklength") or obj.get("maskLength") or obj.get("mask"): the first
\* true value, and the last operand when none is true.
MaskOf(fields) ==
  LET a == Get(fields, "masklength")
      b == Get(fields, "maskLength")
      c == Get(fields, "mask")
  IN  IF Truthy(a) THEN a ELSE IF Truthy(b) THEN b ELSE c

\* The entries a payload is made of.
EntryChoices ==
  { JDict(<< Field("ipPrefix", JStr(Bare(H4a))) >>),
    JDict(<< Field("ipPrefix", JStr(Tok(H4b, TRUE, 24))) >>),
    JDict(<< Field("ipPrefix", JStr(Bare(H6a))) >>),
    JDict(<< Field("ipPrefix", JStr(Bare(NotAnIp))) >>),
    JDict(<< Field("prefix", JStr(Bare(H4b))), Field("mask", JNum(24)) >>),
    JDict(<< Field("prefix", JStr(Bare(H4b))) >>),
    JDict(<< Field("prefix", JStr(Bare(H6a))), Field("maskLength", JNum(64)) >>),
    JDict(<< Field("prefix", JStr(Bare(H4a))), Field("masklength", JNum(33)) >>),
    JDict(<< Field("prefix", JStr(Bare(H4b))), Field("mask", JNum(0)) >>),
    JDict(<< Field("prefix", JStr(Bare(H4b))), Field("masklength", JNum(0)),
             Field("mask", JStr(Bare(NotAnIp))) >>),
    JStr(Tok(H6a, TRUE, 128)),
    JStr(Bare(H4a)),
    JDict(<< Field("ranges", JList(<< JStr(Tok(H4a, TRUE, 8)),
                                     JDict(<< Field("prefix", JStr(Bare(H6a))) >>) >>)) >>) }

RECURSIVE SeqsUpTo(_, _)
SeqsUpTo(S, n) ==
  IF n = 0 THEN {<<>>}
  ELSE LET shorter == SeqsUpTo(S, n - 1)
       IN  shorter \cup {Append(q, x) : q \in shorter, x \in S}

InitExt ==
  /\ family \in {"ipv4", "ipv6", "both"}
  /\ payload \in {JList(q) : q \in SeqsUpTo(EntryChoices, MaxEntries)}
  /\ todo = << payload >>
  /\ cidrs = {}
  /\ cfg_max_chunk = 0 /\ cfg_max_remove = 50 /\ feeds = {}
  /\ cacheFile = CacheMissing /\ remote = <<>>
  /\ runs = 1
  /\ pc = "walk"
  /\ dry_run = FALSE
  /\ new_cidrs = <<>> /\ old_cidrs = <<>> /\ to_add = <<>> /\ to_remove = <<>>
  /\ existing_items = <<>>
  /\ chunks = <<>>
  /\ idx = 1
  /\ updated_lists = <<>>
  /\ exit_code = -1
  /\ outcome = "none"
  /\ log = <<>>
  /\ cache0 = cacheFile /\ remote0 = remote
  /\ lastRun = NoRun

\* walk(obj): one visit.  An object adds its "ipPrefix", or else its "prefix" with
\* the mask, and then has its values walked; a list has its items walked; a string
\* with "/" is added.
walk ==
  /\ pc = "walk"
  /\ todo # <<>>
  /\ LET obj == Head(todo)
         rest == Tail(todo)
     IN  CASE obj.kind = "dict" ->
                /\ cidrs' =
                     IF HasKey(obj.kids, "ipPrefix")
                       THEN add_cidr(cidrs, family, StrOf(Get(obj.kids, "ipPrefix")), JNull)
                     ELSE IF HasKey(obj.kids, "prefix")
                       THEN add_cidr(cidrs, family, StrOf(Get(obj.kids, "prefix")),
                                     MaskOf(obj.kids))
                     ELSE cidrs
                /\ todo' = [i \in DOMAIN obj.kids |-> obj.kids[i].val] \o rest
           [] obj.kind = "list" ->
                /\ todo' = obj.kids \o rest
                /\ UNCHANGED cidrs
           [] obj.kind = "str" /\ obj.tok.slash ->
                /\ cidrs' = add_cidr(cidrs, family, obj.tok, JNull)
                /\ todo' = rest
           [] OTHER ->
                /\ todo' = rest
                /\ UNCHANGED cidrs
  /\ UNCHANGED << runVars, family, payload >>

NextExt == walk

SpecExt == InitExt /\ [][NextExt]_vars

\* =================================================================== claims
\* The create and update calls the run has issued, in order.
Calls == SelectSeq(log, LAMBDA e : e.ev \in {"create", "update"})

ChunkNames == {chunks[i].name : i \in DOMAIN chunks}

\* The snapshot the run loaded: empty when the file is missing or unreadable.
Previous == IF cache0.kind = "ok" THEN Range(cache0.data) ELSE {}

Removed == Previous \ Range(new_cidrs)

\* |removed| / max(1, |previous|) * 100 > maximum removal percentage
RatioExceeds ==
  Cardinality(Removed) * 100 > cfg_max_remove * Max(1, Cardinality(Previous))

\* Nothing but notifications: no login, listing, backup, create, update, cache write.
OnlyNotified == \A p \in DOMAIN log : log[p].ev = "notify"

\* The ids the controller knows an object by.
IdsOf(o) == {o.listId, o.id, o.uuid} \ {""}

\* C1: after a successful fetch the run ends Blocked (exit 2, nothing logged in,
\* listed, backed up, created, updated or written) exactly when the previous
\* snapshot is non-empty and the removal ratio is strictly above the maximum; with
\* an empty previous snapshot (missing or unreadable file included) it is never
\* blocked.
C1_GuardBlocksExactly ==
  (pc = "done" /\ outcome # "FetchFailed") =>
    /\ (outcome = "Blocked") <=> (Previous # {} /\ RatioExceeds)
    /\ (exit_code = 2) <=> (outcome = "Blocked")
    /\ outcome = "Blocked" => OnlyNotified /\ cacheFile = cache0 /\ remote = remote0
    /\ cache0.kind # "ok" => outcome # "Blocked"

C1_Witness ==
  /\ pc = "done" /\ outcome = "Blocked" /\ exit_code = 2
  /\ Cardinality(Previous) = 3 /\ Cardinality(Removed) = 2 /\ cfg_max_remove = 50

\* C2: a dry run never reaches the connect, backup, chunk or apply steps, logs no
\* remote call, backup or cache write, ends right after the delta/guard step with
\* exit 0 when the guard allows and exit 2 when it blocks, and leaves the cache
\* file and every remote object as they were (a failed fetch ends the run before
\* the delta step, with exit 1).
C2_DryRunTouchesNothing ==
  dry_run =>
    /\ pc \in {"fetch", "delta", "done"}
    /\ OnlyNotified
    /\ cacheFile = cache0 /\ remote = remote0
    /\ pc = "done" =>
         \/ outcome = "FetchFailed" /\ exit_code = 1 /\ new_cidrs = <<>>
         \/ outcome = "Blocked" /\ exit_code = 2 /\ Previous # {} /\ RatioExceeds
         \/ outcome = "DryRun" /\ exit_code = 0 /\ ~(Previous # {} /\ RatioExceeds)

C2_Witness ==
  /\ dry_run /\ pc = "done" /\ exit_code = 0
  /\ to_add # <<>> /\ to_remove # <<>>
  /\ \E k \in DOMAIN remote : remote[k].name = DPL_NAME

C4_EveryChunkAttempted ==
  (pc = "done" /\ \E p \in DOMAIN Calls : ~Calls[p].ok) =>
    /\ Len(Calls) = Len(chunks)
    /\ outcome = "ApplyFailed"
    /\ \A p \in DOMAIN log : log[p].ev # "write_cache" /\ log[p].name # "Success"

TerminalStates == {"Success", "FetchFailed", "Blocked", "ConnectFailed", "ApplyFailed"}

ExitCodeFor(state) ==
  CASE state = "Success" -> 0
    [] state = "FetchFailed" -> 1
    [] state = "Blocked" -> 2
    [] state = "ConnectFailed" -> 3
    [] state = "ApplyFailed" -> 4

\* C5: each of the five terminal states yields its own exit code (0, 1, 2, 3, 4):
\* a run that ended on a failed create or update does not exit like a failed fetch.
C5_ExitCodePerState ==
  (pc = "done" /\ outcome \in TerminalStates) => exit_code = ExitCodeFor(outcome)

\* C6: a failed backup, whichever step of it failed, does not end the run: the run
\* goes on to the create/update calls and its terminal state is the one it would
\* have had.
C6_BackupBestEffort ==
  pc = "done" =>
    \A p \in DOMAIN log :
      (log[p].ev = "backup" /\ ~log[p].ok) =>
        /\ outcome \in {"Success", "ApplyFailed"}
        /\ \E q \in DOMAIN log : q > p /\ log[q].ev \in {"create", "update"}

\* The host length of an address version: 32 and 128.
HostLen(ver) == IF ver = 4 THEN 32 ELSE 128

\* The payload's entries that give a bare address: an object whose "ipPrefix", or
\* whose "prefix" without any mask field beside it, is a text without "/".
BareEntries ==
  { e \in Range(payload.kids) :
      /\ e.kind = "dict"
      /\ \/ HasKey(e.kids, "ipPrefix") /\ ~StrOf(Get(e.kids, "ipPrefix")).slash
         \/ /\ ~HasKey(e.kids, "ipPrefix") /\ HasKey(e.kids, "prefix")
            /\ ~StrOf(Get(e.kids, "prefix")).slash
            /\ ~HasKey(e.kids, "masklength") /\ ~HasKey(e.kids, "maskLength")
            /\ ~HasKey(e.kids, "mask") }

BareHostOf(e) ==
  IF HasKey(e.kids, "ipPrefix") THEN StrOf(Get(e.kids, "ipPrefix")).host
  ELSE StrOf(Get(e.kids, "prefix")).host

FamilyAdmits(ver) ==
  \/ family = "both"
  \/ family = "ipv4" /\ ver = 4
  \/ family = "ipv6" /\ ver = 6

\* C7: once the payload is walked, every bare address without a mask that passes
\* the family filter is in the result as a single host: the address itself with
\* length 32 (version 4) or 128 (version 6).
C7_BareAddressIsHost ==
  (pc = "walk" /\ todo = <<>>) =>
    \A e \in BareEntries :
      LET h == BareHostOf(e)
      IN  (h.ver \in {4, 6} /\ FamilyAdmits(h.ver)) =>
            [ver |-> h.ver, groups |-> h.groups, len |-> HostLen(h.ver)] \in cidrs

\* The index text of the chunk names: 1-based, two digits at least.
IndexText(i) ==
  CASE i = 1 -> "01" [] i = 2 -> "02" [] i = 3 -> "03" [] i = 4 -> "04"
    [] i = 5 -> "05" [] i = 6 -> "06" [] i = 7 -> "07" [] i = 8 -> "08"
    [] i = 9 -> "09" [] i = 10 -> "10" [] i = 11 -> "11" [] i = 12 -> "12"
    [] i = 13 -> "13" [] i = 14 -> "14"

RECURSIVE Concat(_)
Concat(cs) == IF cs = <<>> THEN <<>> ELSE Head(cs).cidrs \o Concat(Tail(cs))

\* C8: with n prefixes and maximum chunk size m (m <= 0 taken as 1): n <= m gives
\* the single chunk DPL_NAME with all n prefixes; otherwise ceil(n/m) chunks named
\* DPL_NAME_01, DPL_NAME_02, ... in index order, each of 1..m prefixes, whose
\* concatenation is the ascending list, every prefix in exactly one chunk and the
\* names pairwise distinct.
C8_Partition ==
  pc = "apply" =>
    LET n == Len(new_cidrs)
        m == IF cfg_max_chunk <= 0 THEN 1 ELSE cfg_max_chunk
    IN  IF n <= m
          THEN /\ Len(chunks) = 1
               /\ chunks[1].name = "X" /\ chunks[1].name = DPL_NAME
               /\ chunks[1].cidrs = new_cidrs
          ELSE /\ Len(chunks) * m >= n /\ (Len(chunks) - 1) * m < n
               /\ \A i \in DOMAIN chunks :
                    /\ chunks[i].name = DPL_NAME \o "_" \o IndexText(i)
                    /\ Len(chunks[i].cidrs) >= 1 /\ Len(chunks[i].cidrs) <= m
               /\ Concat(chunks) = new_cidrs
               /\ \A i \in 1..(n - 1) : new_cidrs[i] < new_cidrs[i + 1]
               /\ \A x \in Range(new_cidrs) :
                    Cardinality({i \in DOMAIN chunks : x \in Range(chunks[i].cidrs)}) = 1
               /\ \A i, j \in DOMAIN chunks : i # j => chunks[i].name # chunks[j].name

C8_Witness ==
  /\ pc = "apply" /\ Len(new_cidrs) = 12 /\ cfg_max_chunk = 5
  /\ Len(chunks) = 3
  /\ chunks[1].name = "X_01" /\ chunks[3].name = "X_03"
  /\ chunks[3].cidrs = <<11, 12>>

\* C9: the apply loop takes the chunks in their order and issues one call for each
\* chunk it reaches (all of them in a run that ends Success); the call is an update,
\* aimed at the id of the first listed object of exactly that name, if and only if
\* the listing of the run's start has such an object, and a create otherwise; the
\* backup of that object is requested right before each update, never after it.
C9_CreateOrUpdate ==
  /\ Len(Calls) <= Len(chunks)
  /\ pc = "apply" => Len(Calls) = idx - 1
  /\ outcome = "Success" => Len(Calls) = Len(chunks)
  /\ \A i \in DOMAIN Calls :
       LET hits == {k \in DOMAIN remote0 : remote0[k].name = chunks[i].name}
       IN  /\ Calls[i].name = chunks[i].name
           /\ (Calls[i].ev = "update") <=> (hits # {})
           /\ Calls[i].ev = "update" => Calls[i].id \in IdsOf(remote0[MinOf(hits)])
  /\ \A p \in DOMAIN log :
       log[p].ev = "update" =>
         /\ p > 1
         /\ log[p - 1].ev = "backup"
         /\ log[p - 1].name = log[p].name /\ log[p - 1].id = log[p].id

C9_Witness ==
  /\ pc = "done" /\ outcome = "Success" /\ Len(chunks) = 3
  /\ Calls[1].ev = "create" /\ Calls[2].ev = "update" /\ Calls[3].ev = "update"
  /\ \E k \in DOMAIN remote0 : remote0[k].name = "x_01"

\* C10: a run changes only objects named like one of its chunks, and each such
\* name at most once; every other object stays as it was, and new objects carry a
\* chunk name.  With several chunks the object named DPL_NAME is neither created
\* nor updated, and an indexed object beyond the run's chunks keeps its contents.
C10_OnlyChunkObjectsChange ==
  /\ Len(remote) >= Len(remote0)
  /\ \A k \in DOMAIN remote0 :
       /\ remote0[k].name \notin ChunkNames => remote[k] = remote0[k]
       /\ remote[k].name = remote0[k].name /\ IdsOf(remote[k]) = IdsOf(remote0[k])
  /\ \A k \in DOMAIN remote : k > Len(remote0) => remote[k].name \in ChunkNames
  /\ \A i, j \in DOMAIN Calls : i # j => Calls[i].name # Calls[j].name
  /\ Len(chunks) > 1 =>
       /\ \A k \in DOMAIN remote0 : remote0[k].name = DPL_NAME => remote[k] = remote0[k]
       /\ \A k \in DOMAIN remote : k > Len(remote0) => remote[k].name # DPL_NAME
       /\ \A i \in DOMAIN Calls : Calls[i].name # DPL_NAME

C10_Witness ==
  /\ pc = "done" /\ outcome = "Success" /\ Len(chunks) = 2
  /\ remote # remote0
  /\ \E k \in DOMAIN remote : remote[k].name = "X_03" /\ remote[k].entries = <<1>>
  /\ \E k \in DOMAIN remote : remote[k].name = DPL_NAME /\ remote[k].entries = <<1>>

====
